---- MODULE Spec2Model ----
(***************************************************************************)
(* CMAC (RFC 4493 / NIST SP800-38B) over an injected block cipher.         *)
(*                                                                         *)
(* Three revisions of the engine are modelled and driven side by side by   *)
(* the same calls:                                                         *)
(*   m   the append-and-drain engine of cmac.go (Sum works in a fresh      *)
(*       block `last`);                                                    *)
(*   mt  the revision whose Sum works in the scratch block m.tmp that      *)
(*       block() shares (Write, block and Reset are those of cmac.go);     *)
(*   mc  the fixed-buffer/cursor revision.                                 *)
(* Bytes are 8 bits wide, blocks are sequences of bytes (1-indexed).       *)
(***************************************************************************)
EXTENDS Integers, Sequences, FiniteSets, TLC

\* ------------------------------------------------------------------ bounds

\* Most Write calls made on one engine.
MaxWrites == 2
\* Most Reset calls counted on one engine.
MaxResets == 2

\* ------------------------------------------------------- program constants

_Rb128 == 135
_Rb64 == 27

\* ------------------------------------------------------------------- bytes

\* XOR of two 4-bit values, bit by bit.
NibXor ==
  [a \in 0..15, b \in 0..15 |->
     ((a + b) % 2)
     + 2 * (((a \div 2) + (b \div 2)) % 2)
     + 4 * (((a \div 4) + (b \div 4)) % 2)
     + 8 * (((a \div 8) + (b \div 8)) % 2)]

\* The Go operator ^ on two bytes.
XorByte(a, b) == 16 * NibXor[a \div 16, b \div 16] + NibXor[a % 16, b % 16]

\* make([]byte, n)
Zeros(n) == [i \in 1..n |-> 0]

\* copy(dst, src): the first min(len(dst), len(src)) bytes of dst are overwritten.
Copy(dst, src) ==
  [i \in 1..Len(dst) |-> IF i <= Len(src) THEN src[i] ELSE dst[i]]

\* The number of bytes copy(dst, src) copies.
CopyN(dstLen, srcLen) == IF dstLen < srcLen THEN dstLen ELSE srcLen

\* ------------------------------------------------------------------ cipher

\* The injected cipher.Block: a block size and a keyed single-block
\* encryption. Encrypt is a keyed permutation of the bs-byte blocks (a byte
\* rotation followed by a bytewise affine bijection); it stands for any
\* cipher the caller injects.
Encrypt(c, src) ==
  [i \in 1..c.bs |-> (5 * src[(i % c.bs) + 1] + c.key + 17 * i) % 256]

\* The ciphers callers inject: accepted block sizes 8 and 16, and rejected ones.
Ciphers ==
  {[bs |-> 8, key |-> 100], [bs |-> 16, key |-> 200],
   [bs |-> 12, key |-> 100], [bs |-> 4, key |-> 200]}

\* ------------------------------------------------------- subkey derivation

shifted(x) ==
  [i \in 1..Len(x) |->
     ((2 * x[i]) % 256) + (IF i < Len(x) THEN x[i + 1] \div 128 ELSE 0)]

\* subtle.ConstantTimeSelect(v, x, y): x if v = 1, y if v = 0, by arithmetic
\* on the values only.
ConstantTimeSelect(v, x, y) == v * x + (1 - v) * y

\* gensubkey selecting on the top bit of the shifted value.
gensubkeyMsbAfterShift(c, l, rb) ==
  LET sk == shifted(l)
  IN  [sk EXCEPT ![Len(sk)] =
         XorByte(sk[Len(sk)], ConstantTimeSelect(sk[1] \div 128, rb, 0))]

gensubkey(c, l, rb) ==
  LET sk == shifted(l)
  IN  [sk EXCEPT ![Len(sk)] =
         XorByte(sk[Len(sk)], ConstantTimeSelect(l[1] \div 128, rb, 0))]

\* The steps shifted executes on x from index i on: for each index the loop
\* head, for i > 0 the carry into the byte before, and the shift. The only
\* branch is on the index.
RECURSIVE shiftedLoopPath(_, _)
shiftedLoopPath(x, i) ==
  IF i > Len(x) THEN <<>>
  ELSE <<"range">> \o (IF i > 1 THEN <<"carry">> ELSE <<>>) \o <<"shl">>
         \o shiftedLoopPath(x, i + 1)

shiftedPath(x) == <<"make", "copy">> \o shiftedLoopPath(x, 1) \o <<"return">>

\* gensubkey with the conditional XOR written as a branch on the top bit.
gensubkeyPathBranch(c, l, rb) ==
  shiftedPath(l)
    \o (IF l[1] \div 128 = 1 THEN <<"if", "xor", "return">>
                              ELSE <<"if", "return">>)

\* The steps gensubkey executes: shifted, the selection between rb and 0 by
\* subtle.ConstantTimeSelect, the XOR into the last byte, the return.
gensubkeyPath(c, l, rb) ==
  shiftedPath(l) \o <<"select", "xor", "return">>

\* gensubkeys: panics before any encryption for a block size other than 16
\* or 8; otherwise one encryption of the zero block. enc counts the calls of
\* c.Encrypt.
gensubkeys(c) ==
  IF c.bs \notin {16, 8}
  THEN [panic |-> TRUE, k1 |-> <<>>, k2 |-> <<>>, enc |-> 0]
  ELSE LET rb == IF c.bs = 16 THEN _Rb128 ELSE _Rb64
           l == Encrypt(c, Zeros(c.bs))
           k1 == gensubkey(c, l, rb)
       IN  [panic |-> FALSE, k1 |-> k1, k2 |-> gensubkey(c, k1, rb), enc |-> 1]

\* ------------------------------------------------ engine of cmac.go (m, mt)

\* The nil *cmac: no engine.
Nil ==
  [c |-> [bs |-> 0, key |-> 0], k1 |-> <<>>, k2 |-> <<>>,
   buf |-> <<>>, x |-> <<>>, tmp |-> <<>>]

\* Reset that allocates the chaining value only when there is none, and so
\* keeps the chaining value of the message before.
ResetKeepX(m) ==
  [m EXCEPT !.buf = <<>>,
            !.x = IF Len(m.x) = m.c.bs THEN m.x ELSE Zeros(m.c.bs)]

Reset(m) == [m EXCEPT !.buf = <<>>, !.x = Zeros(m.c.bs)]

\* newcmac without the call of Reset: m.x stays nil.
newcmacNoReset(c) ==
  LET sk == gensubkeys(c)
  IN  [c |-> c, k1 |-> sk.k1, k2 |-> sk.k2,
       buf |-> <<>>, x |-> <<>>, tmp |-> Zeros(c.bs)]

\* newcmac, for a cipher gensubkeys accepts.
newcmac(c) ==
  LET sk == gensubkeys(c)
  IN  Reset([c |-> c, k1 |-> sk.k1, k2 |-> sk.k2,
             buf |-> <<>>, x |-> <<>>, tmp |-> Zeros(c.bs)])

block(m, b) ==
  LET tmp == [i \in 1..Len(m.tmp) |-> XorByte(m.x[i], b[i])]
  IN  [m EXCEPT !.tmp = tmp, !.x = Encrypt(m.c, tmp)]

\* block indexes m.x and b over the range of m.tmp: an index out of range is
\* a run-time panic.
blockPanics(m, b) == Len(m.x) < Len(m.tmp) \/ Len(b) < Len(m.tmp)

\* The loop of Write as a single `if`: at most one block is consumed.
DrainOnce(m, d, enc) ==
  IF Len(d) > m.c.bs
  THEN IF blockPanics(m, SubSeq(d, 1, m.c.bs))
       THEN [m |-> m, d |-> d, enc |-> enc, panic |-> TRUE]
       ELSE [m |-> block(m, SubSeq(d, 1, m.c.bs)),
             d |-> SubSeq(d, m.c.bs + 1, Len(d)), enc |-> enc + 1,
             panic |-> FALSE]
  ELSE [m |-> m, d |-> d, enc |-> enc, panic |-> FALSE]

\* The loop of Write with >= for >: a full pending block is consumed at once.
RECURSIVE DrainGE(_, _, _)
DrainGE(m, d, enc) ==
  IF Len(d) >= m.c.bs
  THEN IF blockPanics(m, SubSeq(d, 1, m.c.bs))
       THEN [m |-> m, d |-> d, enc |-> enc, panic |-> TRUE]
       ELSE DrainGE(block(m, SubSeq(d, 1, m.c.bs)),
                    SubSeq(d, m.c.bs + 1, Len(d)), enc + 1)
  ELSE [m |-> m, d |-> d, enc |-> enc, panic |-> FALSE]

\* The loop of Write over the local slice d; enc counts the calls of block.
RECURSIVE Drain(_, _, _)
Drain(m, d, enc) ==
  IF Len(d) > m.c.bs
  THEN IF blockPanics(m, SubSeq(d, 1, m.c.bs))
       THEN [m |-> m, d |-> d, enc |-> enc, panic |-> TRUE]
       ELSE Drain(block(m, SubSeq(d, 1, m.c.bs)),
                  SubSeq(d, m.c.bs + 1, Len(d)), enc + 1)
  ELSE [m |-> m, d |-> d, enc |-> enc, panic |-> FALSE]

\* Write: the engine after the call, the returned count and error, and the
\* number of block encryptions made.
Write(m, b) ==
  LET r == Drain(m, m.buf \o b, 0)
  IN  IF r.panic
      THEN [m |-> r.m, n |-> 0, err |-> "", enc |-> r.enc, panic |-> TRUE]
      ELSE [m |-> [r.m EXCEPT !.buf = r.d], n |-> Len(b), err |-> "",
            enc |-> r.enc, panic |-> FALSE]

\* Sum that hands the pending bytes over: the buffer is emptied once the tag
\* is computed.
SumConsuming(m, b) ==
  LET bs == m.c.bs
      n == Len(m.buf)
      useK1 == n > 0 /\ n % bs = 0
      oob == ~useK1 /\ n >= bs
      last ==
        IF useK1
        THEN [i \in 1..bs |-> XorByte(m.buf[i], m.k1[i])]
        ELSE LET padded == [Copy(Zeros(bs), m.buf) EXCEPT ![n + 1] = 128]
             IN  [i \in 1..bs |-> XorByte(padded[i], m.k2[i])]
      chained == [i \in 1..bs |-> XorByte(last[i], m.x[i])]
  IN  IF oob
      THEN [m |-> m, out |-> <<>>, branch |-> "panic", panic |-> TRUE]
      ELSE [m |-> [m EXCEPT !.buf = <<>>], out |-> b \o Encrypt(m.c, chained),
            branch |-> IF useK1 THEN "K1" ELSE "K2", panic |-> FALSE]

\* Sum without the store of the 0x80 padding byte.
SumNoPad(m, b) ==
  LET bs == m.c.bs
      n == Len(m.buf)
      useK1 == n > 0 /\ n % bs = 0
      last ==
        IF useK1
        THEN [i \in 1..bs |-> XorByte(m.buf[i], m.k1[i])]
        ELSE LET padded == Copy(Zeros(bs), m.buf)
             IN  [i \in 1..bs |-> XorByte(padded[i], m.k2[i])]
      chained == [i \in 1..bs |-> XorByte(last[i], m.x[i])]
  IN  [m |-> m, out |-> b \o Encrypt(m.c, chained),
       branch |-> IF useK1 THEN "K1" ELSE "K2", panic |-> FALSE]

\* Sum whose K1 test lacks len(m.buf) > 0: the empty buffer takes the K1
\* branch and is indexed out of range.
SumAnyFull(m, b) ==
  LET bs == m.c.bs
      n == Len(m.buf)
      useK1 == n % bs = 0
      oob == (useK1 /\ n < bs) \/ (~useK1 /\ n >= bs)
      last ==
        IF useK1
        THEN [i \in 1..bs |-> XorByte(m.buf[i], m.k1[i])]
        ELSE LET padded == [Copy(Zeros(bs), m.buf) EXCEPT ![n + 1] = 128]
             IN  [i \in 1..bs |-> XorByte(padded[i], m.k2[i])]
      chained == [i \in 1..bs |-> XorByte(last[i], m.x[i])]
  IN  IF oob
      THEN [m |-> m, out |-> <<>>, branch |-> "panic", panic |-> TRUE]
      ELSE [m |-> m, out |-> b \o Encrypt(m.c, chained),
            branch |-> IF useK1 THEN "K1" ELSE "K2", panic |-> FALSE]

\* Sum whose padding branch works in the k2 slice itself (last := m.k2
\* without a copy): the tag ends up in m.k2.
SumAliasK2(m, b) ==
  LET bs == m.c.bs
      n == Len(m.buf)
      useK1 == n > 0 /\ n % bs = 0
      oob == ~useK1 /\ n >= bs
      last ==
        IF useK1
        THEN [i \in 1..bs |-> XorByte(m.buf[i], m.k1[i])]
        ELSE LET padded == [Copy(Zeros(bs), m.buf) EXCEPT ![n + 1] = 128]
             IN  [i \in 1..bs |-> XorByte(padded[i], m.k2[i])]
      chained == [i \in 1..bs |-> XorByte(last[i], m.x[i])]
      tag == Encrypt(m.c, chained)
  IN  IF oob
      THEN [m |-> m, out |-> <<>>, branch |-> "panic", panic |-> TRUE]
      ELSE [m |-> IF useK1 THEN m ELSE [m EXCEPT !.k2 = tag], out |-> b \o tag,
            branch |-> IF useK1 THEN "K1" ELSE "K2", panic |-> FALSE]

\* Sum of cmac.go: the tag is computed in the fresh block `last`. An index
\* out of range is a run-time panic.
Sum(m, b) ==
  LET bs == m.c.bs
      n == Len(m.buf)
      useK1 == n > 0 /\ n % bs = 0
      oob == \/ ~useK1 /\ n >= bs
             \/ Len(m.x) < bs \/ Len(m.k1) < bs \/ Len(m.k2) < bs
      last ==
        IF useK1
        THEN [i \in 1..bs |-> XorByte(m.buf[i], m.k1[i])]
        ELSE LET padded == [Copy(Zeros(bs), m.buf) EXCEPT ![n + 1] = 128]
             IN  [i \in 1..bs |-> XorByte(padded[i], m.k2[i])]
      chained == [i \in 1..bs |-> XorByte(last[i], m.x[i])]
  IN  IF oob
      THEN [m |-> m, out |-> <<>>, branch |-> "panic", panic |-> TRUE]
      ELSE [m |-> m, out |-> b \o Encrypt(m.c, chained),
            branch |-> IF useK1 THEN "K1" ELSE "K2", panic |-> FALSE]

\* Sum in m.tmp that pads as cmac.go's Sum pads its fresh block (copy, store
\* 0x80, then ^= k2 over the block): the bytes of m.tmp past the padding
\* byte are whatever the scratch block held.
SumTmpStale(m, b) ==
  LET bs == m.c.bs
      n == Len(m.buf)
      useK1 == n = bs
      oob == ~useK1 /\ n > Len(m.tmp) - 1
      tmp ==
        IF useK1
        THEN [i \in 1..Len(m.tmp) |-> XorByte(m.buf[i], m.k1[i])]
        ELSE [i \in 1..Len(m.tmp) |->
                IF i <= n THEN XorByte(m.buf[i], m.k2[i])
                ELSE IF i = n + 1 THEN XorByte(128, m.k2[i])
                ELSE XorByte(m.tmp[i], m.k2[i])]
      chained == [i \in 1..Len(m.tmp) |-> XorByte(tmp[i], m.x[i])]
      tag == Encrypt(m.c, chained)
  IN  IF oob
      THEN [m |-> m, out |-> <<>>, branch |-> "panic", panic |-> TRUE]
      ELSE [m |-> [m EXCEPT !.tmp = tag], out |-> b \o tag,
            branch |-> IF useK1 THEN "K1" ELSE "K2", panic |-> FALSE]

\* Sum of the revision that computes the tag in m.tmp.
SumTmp(m, b) ==
  LET bs == m.c.bs
      n == Len(m.buf)
      useK1 == n = bs
      oob == \/ ~useK1 /\ n > Len(m.tmp) - 1
             \/ Len(m.x) < Len(m.tmp) \/ Len(m.k1) < Len(m.tmp)
             \/ Len(m.k2) < Len(m.tmp)
      tmp ==
        IF useK1
        THEN [i \in 1..Len(m.tmp) |-> XorByte(m.buf[i], m.k1[i])]
        ELSE [i \in 1..Len(m.tmp) |->
                IF i <= n THEN XorByte(m.buf[i], m.k2[i])
                ELSE IF i = n + 1 THEN XorByte(128, m.k2[i])
                ELSE m.k2[i]]
      chained == [i \in 1..Len(m.tmp) |-> XorByte(tmp[i], m.x[i])]
      tag == Encrypt(m.c, chained)
  IN  IF oob
      THEN [m |-> m, out |-> <<>>, branch |-> "panic", panic |-> TRUE]
      ELSE [m |-> [m EXCEPT !.tmp = tag], out |-> b \o tag,
            branch |-> IF useK1 THEN "K1" ELSE "K2", panic |-> FALSE]

\* NewWithCipher: an engine and no error for block sizes 8 and 16, no engine
\* and the invalid-blocksize error otherwise. enc counts the calls of
\* c.Encrypt.
ErrInvalidBlockSize == "cmac: invalid blocksize"

\* NewWithCipher without the block-size switch: every cipher goes to newcmac.
NewWithCipherNoCheck(c) ==
  IF gensubkeys(c).panic
  THEN [m |-> Nil, err |-> "", panic |-> TRUE, enc |-> gensubkeys(c).enc]
  ELSE [m |-> newcmac(c), err |-> "", panic |-> FALSE,
        enc |-> gensubkeys(c).enc]

NewWithCipher(c) ==
  IF c.bs \in {8, 16}
  THEN IF gensubkeys(c).panic
       THEN [m |-> Nil, err |-> "", panic |-> TRUE, enc |-> gensubkeys(c).enc]
       ELSE [m |-> newcmac(c), err |-> "", panic |-> FALSE,
             enc |-> gensubkeys(c).enc]
  ELSE [m |-> Nil, err |-> ErrInvalidBlockSize, panic |-> FALSE, enc |-> 0]

\* ------------------------------------------------- cursor revision (mc)

NilC ==
  [c |-> [bs |-> 0, key |-> 0], k1 |-> <<>>, k2 |-> <<>>,
   buf |-> <<>>, x |-> <<>>, cursor |-> 0]

\* The cursor Reset that zeroes the blocks and leaves the cursor.
ResetCKeepCursor(m) ==
  [m EXCEPT !.buf = [i \in 1..Len(m.buf) |-> IF i <= m.c.bs THEN 0 ELSE m.buf[i]],
            !.x = [i \in 1..Len(m.x) |-> IF i <= m.c.bs THEN 0 ELSE m.x[i]]]

ResetC(m) ==
  [m EXCEPT !.buf = [i \in 1..Len(m.buf) |-> IF i <= m.c.bs THEN 0 ELSE m.buf[i]],
            !.x = [i \in 1..Len(m.x) |-> IF i <= m.c.bs THEN 0 ELSE m.x[i]],
            !.cursor = 0]

newcmacC(c) ==
  LET sk == gensubkeys(c)
  IN  ResetC([c |-> c, k1 |-> sk.k1, k2 |-> sk.k2,
              buf |-> Zeros(c.bs), x |-> Zeros(c.bs), cursor |-> 0])

\* The loop of the cursor Write without the XOR of X into the buffer: the
\* full buffer is encrypted as it is.
RECURSIVE DrainCNoXor(_, _, _)
DrainCNoXor(m, b, enc) ==
  IF Len(b) > 0
  THEN LET n == CopyN(Len(m.buf), Len(b))
       IN  DrainCNoXor([m EXCEPT !.buf = Copy(m.buf, b),
                                 !.x = Encrypt(m.c, m.buf),
                                 !.cursor = n],
                       SubSeq(b, n + 1, Len(b)), enc + 1)
  ELSE [m |-> m, b |-> b, enc |-> enc]

\* The loop of the cursor Write over the rest b of the input.
RECURSIVE DrainC(_, _, _)
DrainC(m, b, enc) ==
  IF Len(b) > 0
  THEN LET xored == [i \in 1..Len(m.buf) |-> XorByte(m.buf[i], m.x[i])]
           n == CopyN(Len(xored), Len(b))
       IN  DrainC([m EXCEPT !.buf = Copy(xored, b),
                            !.x = Encrypt(m.c, xored),
                            !.cursor = n],
                  SubSeq(b, n + 1, Len(b)), enc + 1)
  ELSE [m |-> m, b |-> b, enc |-> enc]

\* The cursor Write returning len(b) at its end, when b is what is left of
\* the input.
WriteCLenAfter(m, b) ==
  LET n == CopyN(Len(m.buf) - m.cursor, Len(b))
      buf == [i \in 1..Len(m.buf) |->
                IF i > m.cursor /\ i <= m.cursor + n
                THEN b[i - m.cursor] ELSE m.buf[i]]
      r == DrainC([m EXCEPT !.buf = buf, !.cursor = m.cursor + n],
                  SubSeq(b, n + 1, Len(b)), 0)
  IN  [m |-> r.m, n |-> Len(r.b), err |-> "", enc |-> r.enc, panic |-> FALSE]

WriteC(m, b) ==
  LET totLen == Len(b)
      n == CopyN(Len(m.buf) - m.cursor, Len(b))
      buf == [i \in 1..Len(m.buf) |->
                IF i > m.cursor /\ i <= m.cursor + n
                THEN b[i - m.cursor] ELSE m.buf[i]]
      r == DrainC([m EXCEPT !.buf = buf, !.cursor = m.cursor + n],
                  SubSeq(b, n + 1, Len(b)), 0)
  IN  [m |-> r.m, n |-> totLen, err |-> "", enc |-> r.enc, panic |-> FALSE]

\* The cursor Sum with scratch := b[:bs] for b[n:]: the tag is written from
\* the start of the result, over the caller's prefix.
SumCNoOffset(m, b) ==
  LET bs == m.c.bs
      useK1 == m.cursor = bs
      oob == bs \notin {8, 16} \/ (~useK1 /\ m.cursor >= bs)
      scratch ==
        IF useK1
        THEN [i \in 1..bs |-> XorByte(m.buf[i], m.k1[i])]
        ELSE [i \in 1..bs |->
                IF i <= m.cursor THEN XorByte(m.buf[i], m.k2[i])
                ELSE IF i = m.cursor + 1 THEN XorByte(128, m.k2[i])
                ELSE m.k2[i]]
      chained == [i \in 1..bs |-> XorByte(scratch[i], m.x[i])]
  IN  IF oob
      THEN [m |-> m, out |-> <<>>, branch |-> "panic", panic |-> TRUE]
      ELSE [m |-> m, out |-> Encrypt(m.c, chained) \o Zeros(Len(b)),
            branch |-> IF useK1 THEN "K1" ELSE "K2", panic |-> FALSE]

SumC(m, b) ==
  LET bs == m.c.bs
      useK1 == m.cursor = bs
      oob == bs \notin {8, 16} \/ (~useK1 /\ m.cursor >= bs)
      scratch ==
        IF useK1
        THEN [i \in 1..bs |-> XorByte(m.buf[i], m.k1[i])]
        ELSE [i \in 1..bs |->
                IF i <= m.cursor THEN XorByte(m.buf[i], m.k2[i])
                ELSE IF i = m.cursor + 1 THEN XorByte(128, m.k2[i])
                ELSE m.k2[i]]
      chained == [i \in 1..bs |-> XorByte(scratch[i], m.x[i])]
  IN  IF oob
      THEN [m |-> m, out |-> <<>>, branch |-> "panic", panic |-> TRUE]
      ELSE [m |-> m, out |-> b \o Encrypt(m.c, chained),
            branch |-> IF useK1 THEN "K1" ELSE "K2", panic |-> FALSE]

\* ------------------------------------------------------------------ inputs

\* The byte at position i of a chunk: "pad" chunks are 0x80 followed by
\* zeros (the bytes the padding rule appends), "ramp" chunks are varied.
FillByte(fill, i) == IF fill = "pad" THEN (IF i = 1 THEN 128 ELSE 0)
                     ELSE (37 * i + 11) % 256

Chunk(n, fill) == [i \in 1..n |-> FillByte(fill, i)]

\* The chunks written: empty, one byte, one byte before a block boundary,
\* exactly a block, one byte after, and two blocks and a byte.
Chunks(bs) ==
  {Chunk(0, "ramp"), Chunk(1, "pad"), Chunk(bs - 1, "ramp"), Chunk(bs, "pad"),
   Chunk(bs, "ramp"), Chunk(bs + 1, "ramp"), Chunk(2 * bs + 1, "ramp")}

\* Caller-supplied prefixes of Sum: nil and a one-byte slice.
Prefixes == {<<>>, <<170>>}

\* ------------------------------------------------------------------- state

VARIABLES
  c,         \* the cipher the caller holds
  m,         \* the engine of cmac.go (Nil before construction)
  mt,        \* the engine of the revision whose Sum works in m.tmp
  mc,        \* the engine of the cursor revision
  err,       \* the error NewWithCipher returned ("" is nil)
  encrypts,  \* calls of c.Encrypt made by gensubkeys and construction
  sk,        \* the result of a direct call of gensubkeys
  panicked,  \* a run-time panic has ended the program
  lastOp,    \* the last call made
  msg,       \* the bytes written since construction or the last Reset
  nwrites,   \* Write calls since construction
  nresets,   \* Reset calls on the engine
  blocks,    \* block encryptions made by Write (m, mc) since the last Reset
  wret,      \* the last Write: its input length and what each engine returned
  sret,      \* the last Sum: its prefix, what each engine returned, and
             \* whether the call before it was a Sum too
  callers    \* two goroutines inside Write on the engine m: whether they
             \* take turns, the engine they started from, and each one's
             \* position, argument b and local slice d

vars ==
  <<c, m, mt, mc, err, encrypts, sk, panicked, lastOp, msg, nwrites, nresets,
    blocks, wret, sret, callers>>

NoSk == [called |-> FALSE, panic |-> FALSE, k1 |-> <<>>, k2 |-> <<>>]
NoWrite == [len |-> 0, n |-> 0, nC |-> 0, err |-> "", errC |-> ""]
NoCallers ==
  [locked |-> TRUE, m0 |-> Nil, pc |-> <<"return", "return">>,
   b |-> <<<<>>, <<>>>>, d |-> <<<<>>, <<>>>>]
NoSum ==
  [p |-> <<>>, out |-> <<>>, outT |-> <<>>, outC |-> <<>>,
   branch |-> "none", branchT |-> "none", branchC |-> "none",
   again |-> FALSE]

Init ==
  /\ c \in Ciphers
  /\ m = Nil
  /\ mt = Nil
  /\ mc = NilC
  /\ err = ""
  /\ encrypts = 0
  /\ sk = NoSk
  /\ panicked = FALSE
  /\ lastOp = "none"
  /\ msg = <<>>
  /\ nwrites = 0
  /\ nresets = 0
  /\ blocks = [m |-> 0, mc |-> 0]
  /\ wret = NoWrite
  /\ sret = NoSum
  /\ callers = NoCallers

\* An engine exists and the program runs.
Live == m # Nil /\ ~panicked

\* A direct call of gensubkeys(c), before any engine is built.
CallGensubkeys ==
  /\ lastOp = "none"
  /\ ~panicked
  /\ ~sk.called
  /\ LET r == gensubkeys(c)
     IN  /\ sk' = [called |-> TRUE, panic |-> r.panic, k1 |-> r.k1, k2 |-> r.k2]
         /\ encrypts' = encrypts + r.enc
         /\ panicked' = r.panic
  /\ UNCHANGED <<c, m, mt, mc, err, lastOp, msg, nwrites, nresets, blocks,
                 wret, sret, callers>>

\* NewWithCipher(c): the three revisions are built over the same cipher.
New ==
  /\ lastOp = "none"
  /\ ~panicked
  /\ LET r == NewWithCipher(c)
     IN  /\ m' = r.m
         /\ mt' = r.m
         /\ mc' = IF r.m = Nil THEN NilC ELSE newcmacC(c)
         /\ err' = r.err
         /\ encrypts' = encrypts + r.enc
         /\ panicked' = r.panic
  /\ lastOp' = "New"
  /\ UNCHANGED <<c, sk, msg, nwrites, nresets, blocks, wret, sret, callers>>

\* Write(b) on every engine; r, rt and rc are what the calls return.
DoWrite(b) ==
  /\ Live
  /\ nwrites < MaxWrites
  /\ \E r \in {Write(m, b)}, rt \in {Write(mt, b)}, rc \in {WriteC(mc, b)} :
         /\ m' = r.m
         /\ mt' = rt.m
         /\ mc' = rc.m
         /\ blocks' = [m |-> blocks.m + r.enc, mc |-> blocks.mc + rc.enc]
         /\ wret' = [len |-> Len(b), n |-> r.n, nC |-> rc.n,
                     err |-> r.err, errC |-> rc.err]
         /\ panicked' = (r.panic \/ rt.panic \/ rc.panic)
  /\ msg' = msg \o b
  /\ nwrites' = nwrites + 1
  /\ lastOp' = "Write"
  /\ sret' = NoSum
  /\ UNCHANGED <<c, err, encrypts, sk, nresets, callers>>

\* Sum(p) on every engine; r, rt and rc are what the calls return.
DoSum(p) ==
  /\ Live
  /\ \E r \in {Sum(m, p)}, rt \in {SumTmp(mt, p)}, rc \in {SumC(mc, p)} :
         /\ m' = r.m
         /\ mt' = rt.m
         /\ mc' = rc.m
         /\ panicked' = (r.panic \/ rt.panic \/ rc.panic)
         /\ sret' = [p |-> p, out |-> r.out, outT |-> rt.out, outC |-> rc.out,
                     branch |-> r.branch, branchT |-> rt.branch,
                     branchC |-> rc.branch, again |-> (lastOp = "Sum")]
  /\ lastOp' = "Sum"
  /\ wret' = NoWrite
  /\ UNCHANGED <<c, err, encrypts, sk, msg, nwrites, nresets, blocks,
                 callers>>

\* Reset() on every engine.
DoReset ==
  /\ Live
  /\ nresets < MaxResets
  /\ m' = Reset(m)
  /\ mt' = Reset(mt)
  /\ mc' = ResetC(mc)
  /\ msg' = <<>>
  /\ nresets' = nresets + 1
  /\ blocks' = [m |-> 0, mc |-> 0]
  /\ lastOp' = "Reset"
  /\ wret' = NoWrite
  /\ sret' = NoSum
  /\ UNCHANGED <<c, err, encrypts, sk, panicked, nwrites, callers>>

Next ==
  \/ CallGensubkeys
  \/ New
  \/ \E b \in Chunks(c.bs) : DoWrite(b)
  \/ \E p \in Prefixes : DoSum(p)
  \/ DoReset

Spec == Init /\ [][Next]_vars

\* ------------------------------------------------ RFC 4493, for reference

\* Block i (from 1) of the message mm cut into bs-byte blocks; only the last
\* may be short.
MsgBlock(mm, bs, i) ==
  SubSeq(mm, (i - 1) * bs + 1, IF i * bs < Len(mm) THEN i * bs ELSE Len(mm))

\* n = max(1, ceil(len/bs)).
NumBlocks(mm, bs) == IF Len(mm) = 0 THEN 1 ELSE (Len(mm) + bs - 1) \div bs

\* X_k: the CBC chain from the zero block over the first k blocks of mm.
RECURSIVE CBC(_, _, _)
CBC(c0, mm, k) ==
  IF k = 0 THEN Zeros(c0.bs)
  ELSE LET prev == CBC(c0, mm, k - 1)
           blk == MsgBlock(mm, c0.bs, k)
       IN  Encrypt(c0, [i \in 1..c0.bs |-> XorByte(prev[i], blk[i])])

\* The CMAC of mm over the cipher c0 with the subkeys K1, K2.
RFC4493(c0, K1, K2, mm) ==
  LET bs == c0.bs
      n == NumBlocks(mm, bs)
      Mn == MsgBlock(mm, bs, n)
      complete == Len(mm) > 0 /\ Len(mm) % bs = 0
      last ==
        IF complete
        THEN [i \in 1..bs |-> XorByte(Mn[i], K1[i])]
        ELSE [i \in 1..bs |->
                XorByte(IF i <= Len(Mn) THEN Mn[i]
                        ELSE IF i = Len(Mn) + 1 THEN 128 ELSE 0, K2[i])]
      X == CBC(c0, mm, n - 1)
  IN  Encrypt(c0, [i \in 1..bs |-> XorByte(last[i], X[i])])

\* The tag bytes of a Sum result: what follows the caller's prefix.
Tag(out, p) == SubSeq(out, Len(p) + 1, Len(out))

\* The tag a freshly constructed engine returns after a single Write(mm),
\* for each revision.
FreshTag(c0, mm) == Sum(Write(newcmac(c0), mm).m, <<>>).out
FreshTagT(c0, mm) == SumTmp(Write(newcmac(c0), mm).m, <<>>).out
FreshTagC(c0, mm) == SumC(WriteC(newcmacC(c0), mm).m, <<>>).out

\* ------------------------------------------------------------------ claims

\* C1. Streaming equivalence: on an engine that was never Reset, Sum after
\* any sequence of Writes (empty chunks and every position of the chunk
\* boundaries included) returns the tag a fresh engine over the same cipher
\* returns after one Write of the concatenation. Stated for each revision.
C1_StreamingEquivalence ==
  (lastOp = "Sum" /\ nresets = 0) =>
     /\ ~panicked
     /\ Tag(sret.out, sret.p) = FreshTag(c, msg)
     /\ Tag(sret.outT, sret.p) = FreshTagT(c, msg)
     /\ Tag(sret.outC, sret.p) = FreshTagC(c, msg)

\* Two chunks have been written, across two block boundaries, and summed.
C1_Witness ==
  /\ lastOp = "Sum" /\ nresets = 0 /\ nwrites = 2
  /\ blocks.m = 2 /\ Len(msg) = 2 * c.bs + 1
  /\ Len(sret.out) = Len(sret.p) + c.bs

\* C2. Write(msg) on a freshly constructed engine followed by Sum(nil)
\* returns the RFC 4493 CMAC of msg under the engine's subkeys.
C2_MatchesRFC4493 ==
  (lastOp = "Sum" /\ nresets = 0 /\ nwrites = 1 /\ sret.p = <<>>) =>
     /\ sret.out = RFC4493(c, m.k1, m.k2, msg)
     /\ sret.outT = RFC4493(c, m.k1, m.k2, msg)
     /\ sret.outC = RFC4493(c, m.k1, m.k2, msg)

\* One Write of two blocks and a byte on a fresh engine, then Sum(nil).
C2_Witness ==
  /\ lastOp = "Sum" /\ nresets = 0 /\ nwrites = 1 /\ sret.p = <<>>
  /\ Len(msg) = 2 * c.bs + 1 /\ Len(sret.out) = c.bs

\* C3. Sum takes the K1 branch exactly when the bytes written since
\* construction or the last Reset are non-zero in number and an exact
\* multiple of the block size, and the padding (K2) branch otherwise.
C3_BranchByTotalLength ==
  lastOp = "Sum" =>
     LET aligned == Len(msg) > 0 /\ Len(msg) % c.bs = 0
         want == IF aligned THEN "K1" ELSE "K2"
     IN  sret.branch = want /\ sret.branchT = want /\ sret.branchC = want

\* Sum took the K1 branch on a two-block message written in two chunks.
C3_Witness ==
  /\ lastOp = "Sum" /\ sret.branch = "K1" /\ sret.branchC = "K1"
  /\ Len(msg) = 2 * c.bs /\ nwrites = 2 /\ nresets = 0

\* C4. Hold-last-block: once the bytes written amount to a non-zero exact
\* multiple of the block size, the pending buffer is the message's final
\* block, and X and the encryption count are those of the chain over the
\* preceding blocks only.
C4_HoldLastBlock ==
  (Live /\ Len(msg) > 0 /\ Len(msg) % c.bs = 0) =>
     LET k == Len(msg) \div c.bs
         final == SubSeq(msg, Len(msg) - c.bs + 1, Len(msg))
     IN  /\ m.buf = final
         /\ m.x = CBC(c, msg, k - 1)
         /\ blocks.m = k - 1
         /\ mc.cursor = c.bs
         /\ mc.buf = final
         /\ mc.x = CBC(c, msg, k - 1)
         /\ blocks.mc = k - 1

\* Two blocks written in two chunks: the second block is pending.
C4_Witness ==
  /\ lastOp = "Write" /\ nwrites = 2 /\ nresets = 0
  /\ Len(msg) = 2 * c.bs /\ Len(m.buf) = c.bs /\ blocks.m = 1

\* C5. Reset round-trip: on an engine that has been Reset, Sum returns the
\* tag a fresh engine over the same cipher returns after one Write of the
\* bytes written since the last Reset.
C5_ResetRoundTrip ==
  (lastOp = "Sum" /\ nresets >= 1) =>
     /\ ~panicked
     /\ Tag(sret.out, sret.p) = FreshTag(c, msg)
     /\ Tag(sret.outT, sret.p) = FreshTagT(c, msg)
     /\ Tag(sret.outC, sret.p) = FreshTagC(c, msg)

\* After the second Reset a short message was written and summed; the
\* scratch block still holds the last block step of an earlier message.
C5_Witness ==
  /\ lastOp = "Sum" /\ nresets = 2 /\ Len(msg) > 0 /\ blocks.m = 0
  /\ m.tmp # Zeros(c.bs)

\* C6. Sum does not mutate the engine: across every Sum the chaining value,
\* the pending buffer (the cursor too) and the subkeys are what they were.
C6_SumKeepsState ==
  [][lastOp' = "Sum" =>
       /\ m'.x = m.x /\ m'.buf = m.buf /\ m'.k1 = m.k1 /\ m'.k2 = m.k2
       /\ mt'.x = mt.x /\ mt'.buf = mt.buf /\ mt'.k1 = mt.k1 /\ mt'.k2 = mt.k2
       /\ mc'.x = mc.x /\ mc'.buf = mc.buf /\ mc'.cursor = mc.cursor
       /\ mc'.k1 = mc.k1 /\ mc'.k2 = mc.k2]_vars

\* Sum has run on an engine with a chaining value and pending bytes.
C6_Witness ==
  /\ lastOp = "Sum" /\ blocks.m >= 1 /\ Len(m.buf) > 0
  /\ m.x # Zeros(c.bs) /\ Len(sret.out) = Len(sret.p) + c.bs

\* C7. Sum is idempotent: a Sum that follows a Sum returns the same tag, in
\* every revision (the caller's prefix aside).
C7_SumIdempotent ==
  [][(lastOp = "Sum" /\ lastOp' = "Sum") =>
       /\ Tag(sret'.out, sret'.p) = Tag(sret.out, sret.p)
       /\ Tag(sret'.outT, sret'.p) = Tag(sret.outT, sret.p)
       /\ Tag(sret'.outC, sret'.p) = Tag(sret.outC, sret.p)]_vars

\* A Sum has followed a Sum on the revision whose scratch block then holds
\* the tag, with a short pending buffer behind a chained block.
C7_Witness ==
  /\ lastOp = "Sum" /\ sret.again /\ blocks.m >= 1
  /\ Len(mt.buf) < c.bs - 1 /\ mt.tmp = Tag(sret.outT, sret.p)

\* C8. Block-size rejection: NewWithCipher on a cipher whose block size is
\* not 8 or 16 returns the invalid-blocksize error and no engine, and
\* gensubkeys on such a cipher panics; in both cases c.Encrypt was never
\* called.
C8_BlockSizeRejection ==
  c.bs \notin {8, 16} =>
     /\ lastOp = "New" =>
          /\ err = ErrInvalidBlockSize
          /\ m = Nil /\ mt = Nil /\ mc = NilC
          /\ ~panicked
     /\ sk.called => sk.panic /\ sk.k1 = <<>> /\ sk.k2 = <<>>
     /\ encrypts = 0

\* NewWithCipher has refused a 12-byte cipher.
C8_Witness ==
  /\ lastOp = "New" /\ c.bs = 12 /\ err = ErrInvalidBlockSize

\* C9. Totality: once an engine is built no call panics or returns an
\* error; the pending buffer never exceeds a block, X and the subkeys are
\* block-sized, and Sum's padding store is in range.
C9_Total ==
  m # Nil =>
     /\ ~panicked
     /\ wret.err = "" /\ wret.errC = ""
     /\ Len(m.buf) <= c.bs /\ Len(mt.buf) <= c.bs /\ mc.cursor <= c.bs
     /\ Len(m.x) = c.bs /\ Len(m.k1) = c.bs /\ Len(m.k2) = c.bs
     /\ Len(m.tmp) = c.bs /\ Len(mt.x) = c.bs /\ Len(mt.tmp) = c.bs
     /\ Len(mc.x) = c.bs /\ Len(mc.buf) = c.bs
     /\ lastOp = "Sum" =>
          /\ sret.branch = "K2" => Len(m.buf) < c.bs
          /\ sret.branchT = "K2" => Len(mt.buf) < c.bs
          /\ sret.branchC = "K2" => mc.cursor < c.bs
          /\ sret.branch # "panic" /\ sret.branchT # "panic"
          /\ sret.branchC # "panic"

\* After a Reset, Sum padded a buffer one byte short of a block: the
\* padding byte went to the last index.
C9_Witness ==
  /\ lastOp = "Sum" /\ nresets >= 1 /\ sret.branch = "K2"
  /\ Len(m.buf) = c.bs - 1 /\ mc.cursor = c.bs - 1 /\ blocks.m >= 1

\* C10. Write returns len(b) and no error, and every byte written is in the
\* engine once: the chained blocks and the pending bytes are the message.
C10_WriteCountsAllBytes ==
  (lastOp = "Write") =>
     /\ wret.n = wret.len /\ wret.nC = wret.len
     /\ wret.err = "" /\ wret.errC = ""
     /\ blocks.m * c.bs + Len(m.buf) = Len(msg)
     /\ m.buf = SubSeq(msg, blocks.m * c.bs + 1, Len(msg))
     /\ m.x = CBC(c, msg, blocks.m)
     /\ blocks.mc * c.bs + mc.cursor = Len(msg)
     /\ SubSeq(mc.buf, 1, mc.cursor) = SubSeq(msg, blocks.mc * c.bs + 1, Len(msg))
     /\ mc.x = CBC(c, msg, blocks.mc)

\* A Write of two blocks and a byte has returned on an engine that already
\* held pending bytes.
C10_Witness ==
  /\ lastOp = "Write" /\ wret.len = 2 * c.bs + 1 /\ wret.n = 2 * c.bs + 1
  /\ Len(msg) > wret.len /\ blocks.m >= 2

\* C11. Between calls the pending buffer holds at most one block (the
\* cursor is at most the block size), and a Write that has crossed a block
\* boundary leaves between one byte and one block pending.
C11_BufferWithinBlock ==
  Live =>
     /\ Len(m.buf) \in 0..c.bs
     /\ Len(mt.buf) \in 0..c.bs
     /\ mc.cursor \in 0..c.bs
     /\ (lastOp = "Write" /\ blocks.m >= 1) =>
          /\ Len(m.buf) \in 1..c.bs
          /\ mc.cursor \in 1..c.bs

\* A Write of two blocks and a byte onto a pending buffer one byte short of
\* a block crossed two boundaries and left exactly one block pending.
C11_Witness ==
  /\ lastOp = "Write" /\ wret.len = 2 * c.bs + 1 /\ Len(msg) = 3 * c.bs
  /\ Len(m.buf) = c.bs /\ mc.cursor = c.bs /\ blocks.m = 2

\* C12. The subkeys are derived once and never change: every engine holds
\* the pair gensubkeys derives from its cipher, whatever calls were made,
\* and construction has called c.Encrypt once (a direct call of gensubkeys
\* made before it accounts for one more).
C12_SubkeysFixed ==
  m # Nil =>
     /\ m.k1 = gensubkeys(c).k1 /\ m.k2 = gensubkeys(c).k2
     /\ mt.k1 = gensubkeys(c).k1 /\ mt.k2 = gensubkeys(c).k2
     /\ mc.k1 = gensubkeys(c).k1 /\ mc.k2 = gensubkeys(c).k2
     /\ encrypts = 1 + (IF sk.called THEN 1 ELSE 0)

\* Two Writes, a Reset and a padded Sum have run on an engine built with
\* a single zero-block encryption.
C12_Witness ==
  /\ lastOp = "Sum" /\ nresets >= 1 /\ nwrites = 2 /\ sret.branch = "K2"
  /\ encrypts = 1 /\ Len(m.k2) = c.bs

\* C13. Sum(p) returns p followed by exactly block-size tag bytes, and the
\* tag bytes are those Sum(nil) returns in the same state.
C13_SumAppendsTag ==
  lastOp = "Sum" =>
     /\ Len(sret.out) = Len(sret.p) + c.bs
     /\ Len(sret.outT) = Len(sret.p) + c.bs
     /\ Len(sret.outC) = Len(sret.p) + c.bs
     /\ SubSeq(sret.out, 1, Len(sret.p)) = sret.p
     /\ SubSeq(sret.outT, 1, Len(sret.p)) = sret.p
     /\ SubSeq(sret.outC, 1, Len(sret.p)) = sret.p
     /\ Tag(sret.out, sret.p) = Sum(m, <<>>).out
     /\ Tag(sret.outT, sret.p) = SumTmp(mt, <<>>).out
     /\ Tag(sret.outC, sret.p) = SumC(mc, <<>>).out

\* Sum was called with a one-byte prefix on an engine with a chained block.
C13_Witness ==
  /\ lastOp = "Sum" /\ sret.p = <<170>> /\ blocks.m >= 1
  /\ Len(sret.outC) = c.bs + 1 /\ sret.outC[1] = 170

\* C15. From every reachable state Reset leaves X the zero block and the
\* pending buffer empty and leaves K1, K2 and the cipher as they were: the
\* engine is then a freshly constructed one (in cmac.go up to the scratch
\* block tmp, which Reset does not touch and block overwrites before
\* reading it).
C15_ResetRestoresInitial ==
  Live =>
     /\ LET r == Reset(m)
            rt == Reset(mt)
            rc == ResetC(mc)
        IN  /\ r.x = Zeros(c.bs) /\ r.buf = <<>>
            /\ r.k1 = m.k1 /\ r.k2 = m.k2 /\ r.c = m.c
            /\ [r EXCEPT !.tmp = Zeros(c.bs)] = newcmac(c)
            /\ [rt EXCEPT !.tmp = Zeros(c.bs)] = newcmac(c)
            /\ rc.x = Zeros(c.bs) /\ rc.cursor = 0
            /\ rc.k1 = mc.k1 /\ rc.k2 = mc.k2 /\ rc.c = mc.c
            /\ rc = newcmacC(c)
     /\ lastOp = "Reset" =>
          /\ m.x = Zeros(c.bs) /\ m.buf = <<>>
          /\ [m EXCEPT !.tmp = Zeros(c.bs)] = newcmac(c)
          /\ mc = newcmacC(c)

\* Reset has run on an engine that had chained a block: X is zero again.
C15_Witness ==
  /\ lastOp = "Reset" /\ nwrites = 2 /\ m.tmp # Zeros(c.bs)
  /\ m.x = Zeros(c.bs) /\ m.buf = <<>> /\ mc.cursor = 0

\* C18. Canonical state: with n the number of bytes written since
\* construction or the last Reset, the pending buffer is empty iff n = 0
\* and otherwise holds the last ((n - 1) mod bs) + 1 bytes of the message;
\* X is the CBC chain over the first ceil(n/bs) - 1 blocks, and Write has
\* made exactly that many block encryptions.
C18_CanonicalState ==
  Live =>
     LET n == Len(msg)
         pending == IF n = 0 THEN 0 ELSE ((n - 1) % c.bs) + 1
         chained == IF n = 0 THEN 0 ELSE ((n + c.bs - 1) \div c.bs) - 1
     IN  /\ (m.buf = <<>>) <=> (n = 0)
         /\ Len(m.buf) = pending
         /\ m.buf = SubSeq(msg, n - pending + 1, n)
         /\ m.x = CBC(c, msg, chained)
         /\ (n <= c.bs) => m.x = Zeros(c.bs)
         /\ blocks.m = chained
         /\ mt.buf = m.buf /\ mt.x = m.x

\* Three blocks written in two chunks, with a Sum after them: two blocks
\* are chained and the third is pending.
C18_Witness ==
  /\ lastOp = "Sum" /\ nwrites = 2 /\ Len(msg) = 3 * c.bs
  /\ blocks.m = 2 /\ Len(m.buf) = c.bs /\ m.x # Zeros(c.bs)

\* C19. Revision equivalence: driven by the same calls, the cursor engine
\* and the append-and-drain engine stay related by cursor = len(buffer),
\* buf[0..cursor) = buffer and equal X (and equal subkeys), and every Sum
\* returns the same bytes in both.
C19_RevisionsEquivalent ==
  /\ Live =>
       /\ mc.cursor = Len(m.buf)
       /\ SubSeq(mc.buf, 1, mc.cursor) = m.buf
       /\ mc.x = m.x
       /\ mc.k1 = m.k1 /\ mc.k2 = m.k2
       /\ blocks.mc = blocks.m
  /\ lastOp = "Sum" => sret.outC = sret.out /\ sret.branchC = sret.branch
  /\ lastOp = "Write" => wret.nC = wret.n

\* Both engines summed a short pending buffer behind a chained block while
\* the cursor engine's buffer held stale bytes past the cursor.
C19_Witness ==
  /\ lastOp = "Sum" /\ blocks.mc >= 1 /\ mc.cursor < c.bs - 1
  /\ mc.buf[c.bs] # 0 /\ sret.outC = sret.out /\ Len(sret.out) >= c.bs

\* --------------------------------------- subkey derivation over every key

\* The ciphers of an accepted block size, over every key.
SubkeyCiphers == {[bs |-> b, key |-> k] : b \in {8, 16}, k \in 0..255}

InitSubkeys ==
  /\ c \in SubkeyCiphers
  /\ m = Nil
  /\ mt = Nil
  /\ mc = NilC
  /\ err = ""
  /\ encrypts = 0
  /\ sk = NoSk
  /\ panicked = FALSE
  /\ lastOp = "none"
  /\ msg = <<>>
  /\ nwrites = 0
  /\ nresets = 0
  /\ blocks = [m |-> 0, mc |-> 0]
  /\ wret = NoWrite
  /\ sret = NoSum
  /\ callers = NoCallers

\* gensubkeys is called directly and by construction.
NextSubkeys ==
  \/ CallGensubkeys
  \/ New

SpecSubkeys == InitSubkeys /\ [][NextSubkeys]_vars

\* Bit j of v, counted from the most-significant bit of v[1].
Bit(v, j) == (v[((j - 1) \div 8) + 1] \div (2 ^ (7 - ((j - 1) % 8)))) % 2

\* The bits of double(v): v shifted left by one bit over the whole sequence,
\* the top bit dropped, and rb added (mod 2) into the last eight bits iff the
\* top bit of v was 1.
DoubleBits(v, rb) ==
  LET n == 8 * Len(v)
  IN  [j \in 1..n |->
         LET s == IF j < n THEN Bit(v, j + 1) ELSE 0
             r == IF j > n - 8 /\ Bit(v, 1) = 1
                  THEN (rb \div (2 ^ (n - j))) % 2
                  ELSE 0
         IN  (s + r) % 2]

Double(v, rb) ==
  LET bits == DoubleBits(v, rb)
      b(i, k) == bits[8 * (i - 1) + k + 1] * (2 ^ (7 - k))
  IN  [i \in 1..Len(v) |->
         b(i, 0) + b(i, 1) + b(i, 2) + b(i, 3)
           + b(i, 4) + b(i, 5) + b(i, 6) + b(i, 7)]

\* C14. For a cipher of block size 8 or 16, gensubkeys returns
\* K1 = double(L) and K2 = double(K1), L the encryption of the zero block,
\* double the one-bit left shift with Rb XORed into the last byte iff the
\* top bit of the original was 1, Rb = 0x87 for 16 and 0x1b for 8; every
\* call on the same cipher returns the same pair.
C14_SubkeyDerivation ==
  LET rb == IF c.bs = 16 THEN 135 ELSE 27
      L == Encrypt(c, Zeros(c.bs))
  IN  /\ sk.called =>
           /\ ~sk.panic
           /\ sk.k1 = Double(L, rb)
           /\ sk.k2 = Double(sk.k1, rb)
      /\ m # Nil =>
           /\ m.k1 = Double(L, rb)
           /\ m.k2 = Double(m.k1, rb)
      /\ (sk.called /\ m # Nil) => (m.k1 = sk.k1 /\ m.k2 = sk.k2)

\* gensubkeys was called twice on a 16-byte cipher whose L has the top bit
\* set and whose K1 has it clear: Rb went into K1 and not into K2.
C14_Witness ==
  /\ sk.called /\ m # Nil /\ c.bs = 16
  /\ Encrypt(c, Zeros(16))[1] >= 128 /\ sk.k1[1] < 128
  /\ sk.k1[16] = XorByte((2 * Encrypt(c, Zeros(16))[16]) % 256, 135)
  /\ sk.k2[16] = (2 * sk.k1[16]) % 256
  /\ m.k2 = sk.k2

\* v with its most-significant bit flipped.
FlipMsb(v) == [v EXCEPT ![1] = (v[1] + 128) % 256]

\* C17. The XOR of Rb in gensubkey is a selection by value, not a branch:
\* on two inputs of the same length that differ in their most-significant
\* bit gensubkey executes the same sequence of steps, and the two results
\* differ exactly by Rb in the last byte.
C17_ConstantTimeSelection ==
  (sk.called /\ ~sk.panic) =>
     LET rb == IF c.bs = 16 THEN _Rb128 ELSE _Rb64
     IN  \A v \in {Encrypt(c, Zeros(c.bs)), sk.k1, sk.k2} :
            LET w == FlipMsb(v)
                kv == gensubkey(c, v, rb)
                kw == gensubkey(c, w, rb)
            IN  /\ gensubkeyPath(c, v, rb) = gensubkeyPath(c, w, rb)
                /\ ConstantTimeSelect(v[1] \div 128, rb, 0)
                     = (IF v[1] >= 128 THEN rb ELSE 0)
                /\ \A i \in 1..(c.bs - 1) : kv[i] = kw[i]
                /\ kv[c.bs] = XorByte(kw[c.bs], rb)

\* gensubkeys ran on an 8-byte cipher whose L and K1 differ in the top bit:
\* the two calls of gensubkey took the same steps and one of them XORed Rb.
C17_Witness ==
  /\ sk.called /\ ~sk.panic /\ c.bs = 8
  /\ Encrypt(c, Zeros(8))[1] < 128 /\ sk.k1[1] >= 128
  /\ gensubkeyPath(c, Encrypt(c, Zeros(8)), _Rb64)
       = gensubkeyPath(c, sk.k1, _Rb64)
  /\ sk.k1[8] = (2 * Encrypt(c, Zeros(8))[8]) % 256
  /\ sk.k2[8] = XorByte((2 * sk.k1[8]) % 256, _Rb64)

\* ------------------------------------------ two callers inside one Write

\* d := append(m.buf, b...)
WriteAppend(mm, b) == mm.buf \o b

\* The loop condition with >=: a full last block is chained, not held.
WriteMoreGE(mm, d) == Len(d) >= mm.c.bs

\* for len(d) > m.c.BlockSize()
WriteMore(mm, d) == Len(d) > mm.c.bs

\* m.buf = d
WriteStore(mm, d) == [mm EXCEPT !.buf = d]

\* What the engine may hold when the two calls start.
Pending(bs) == {Chunk(0, "ramp"), Chunk(1, "pad"), Chunk(bs, "ramp")}

\* An engine that was built and written to once; two goroutines are about
\* to call Write on it, taking turns (locked) or not. mt, mc and the
\* caller's record of the calls made stay as they were before the two calls.
InitRace ==
  /\ c \in {cc \in Ciphers : ~gensubkeys(cc).panic}
  /\ \E b0 \in Pending(c.bs) :
       \E r \in {Write(newcmac(c), b0)}, rc \in {WriteC(newcmacC(c), b0)} :
          /\ m = r.m
          /\ mt = r.m
          /\ mc = rc.m
          /\ msg = b0
          /\ blocks = [m |-> r.enc, mc |-> rc.enc]
          /\ wret = [len |-> Len(b0), n |-> r.n, nC |-> rc.n,
                     err |-> r.err, errC |-> rc.err]
          /\ callers \in
               {[locked |-> l, m0 |-> r.m, pc |-> <<"call", "call">>,
                 b |-> <<b1, b2>>, d |-> <<<<>>, <<>>>>] :
                  l \in BOOLEAN, b1 \in Chunks(c.bs), b2 \in Chunks(c.bs)}
  /\ err = ""
  /\ encrypts = 1
  /\ sk = NoSk
  /\ panicked = FALSE
  /\ lastOp = "Write"
  /\ nwrites = 1
  /\ nresets = 0
  /\ sret = NoSum

\* Caller i enters Write and reads the pending buffer into its slice d.
\* Callers that take turns enter only while no other call is in progress.
CallerAppend(i) ==
  /\ callers.pc[i] = "call"
  /\ callers.locked => \A j \in {1, 2} \ {i} : callers.pc[j] # "loop"
  /\ callers' = [callers EXCEPT !.pc[i] = "loop",
                                !.d[i] = WriteAppend(m, callers.b[i])]
  /\ UNCHANGED <<c, m, mt, mc, err, encrypts, sk, panicked, lastOp, msg,
                 nwrites, nresets, blocks, wret, sret>>

\* One iteration of caller i's loop: the first block of d goes into X.
CallerBlock(i) ==
  /\ callers.pc[i] = "loop"
  /\ WriteMore(m, callers.d[i])
  /\ m' = block(m, SubSeq(callers.d[i], 1, c.bs))
  /\ callers' = [callers EXCEPT
                   !.d[i] = SubSeq(callers.d[i], c.bs + 1, Len(callers.d[i]))]
  /\ UNCHANGED <<c, mt, mc, err, encrypts, sk, panicked, lastOp, msg,
                 nwrites, nresets, blocks, wret, sret>>

\* Caller i leaves the loop, stores d as the pending buffer and returns.
CallerStore(i) ==
  /\ callers.pc[i] = "loop"
  /\ ~WriteMore(m, callers.d[i])
  /\ m' = WriteStore(m, callers.d[i])
  /\ callers' = [callers EXCEPT !.pc[i] = "return"]
  /\ UNCHANGED <<c, mt, mc, err, encrypts, sk, panicked, lastOp, msg,
                 nwrites, nresets, blocks, wret, sret>>

NextRace ==
  \/ \E i \in {1, 2} : CallerAppend(i)
  \/ \E i \in {1, 2} : CallerBlock(i)
  \/ \E i \in {1, 2} : CallerStore(i)

SpecRace == InitRace /\ [][NextRace]_vars

\* The engine after the two writes made one after the other, in either order.
SerialEngines ==
  LET m0 == callers.m0
      b1 == callers.b[1]
      b2 == callers.b[2]
  IN  {Write(Write(m0, b1).m, b2).m, Write(Write(m0, b2).m, b1).m}

\* C16. Two Write calls on one engine: when at most one caller is in the
\* engine at a time, every state with one call returned is the engine after
\* that one write, and every state with both returned is the engine, and
\* gives the tag, of one of the two serial orders. (Without that the
\* witness reaches a state that matches neither order.)
C16_SerialUnderMutualExclusion ==
  (callers.m0 # Nil /\ callers.locked) =>
     /\ ~(callers.pc[1] = "loop" /\ callers.pc[2] = "loop")
     /\ \A i \in {1, 2} :
          (callers.pc[i] = "return" /\ callers.pc[3 - i] = "call") =>
             m = Write(callers.m0, callers.b[i]).m
     /\ (callers.pc[1] = "return" /\ callers.pc[2] = "return") =>
          /\ m \in SerialEngines
          /\ \E s \in SerialEngines :
               /\ m.x = s.x /\ m.buf = s.buf
               /\ Sum(m, <<>>).out = Sum(s, <<>>).out

\* Two unsynchronized writes have both returned and the engine matches
\* neither serial order in (X, pending buffer) nor in its tag: bytes of one
\* write are lost.
C16_Witness ==
  /\ callers.m0 # Nil /\ ~callers.locked
  /\ callers.pc[1] = "return" /\ callers.pc[2] = "return"
  /\ \A s \in SerialEngines :
       /\ <<m.x, m.buf>> # <<s.x, s.buf>>
       /\ Sum(m, <<>>).out # Sum(s, <<>>).out
  /\ Len(callers.b[1]) >= 1 /\ Len(callers.b[2]) >= 1
  /\ Len(m.buf) = Len(callers.m0.buf) + Len(callers.b[2])

====
